---- MODULE Spec2Model ----
(***************************************************************************)
(* Model of gps/android/utils/battery_listener.cpp: the BatteryListenerImpl *)
(* object (status store, debounce worker thread, health-service link) and  *)
(* the process-wide facade loc_extn_battery_properties_listener_*.         *)
(*                                                                         *)
(* Threads: "app" (the caller of the facade), "t1" (the detached thread    *)
(* running batteryPropertiesListenerInit), "d" and "d2" (binder threads    *)
(* that deliver serviceDied; "d2" is used only in TwoBindersSpec, where two *)
(* notifications can be in progress at once), the worker thread of the listener (workerPc), and the binder  *)
(* thread delivering healthInfoChanged (one critical section per           *)
(* delivery).                                                              *)
(*                                                                         *)
(* Atomicity: a stretch of code that runs with mLock held is one step.     *)
(* The only accesses made without mLock are the writes of mDone (line 188) *)
(* and mHealth (line 203), notify_one and join; each is a step of its own, *)
(* so every order of a racing access and a critical section is explored.   *)
(*                                                                         *)
(* Library behaviour assumed: std::condition_variable may wake spuriously; *)
(* android::sp::clear() runs the destructor and then nulls the pointer;    *)
(* batteryListener holds the only strong reference.  An operation with     *)
(* undefined behaviour either terminates the process (crashed) or carries  *)
(* on as if the faulty call had done nothing.                              *)
(*                                                                         *)
(* Specifications: Spec (everything the application and the service can    *)
(* do, notifications on "d"), ListenerSpec (Spec without is_charging and   *)
(* deinit calls), LinkSpec (ListenerSpec without service death), QuerySpec *)
(* (LinkSpec plus is_charging calls), TwoBindersSpec (ListenerSpec with    *)
(* notifications on "d" and "d2"); Fair... adds the scheduling assumptions.*)
(***************************************************************************)
EXTENDS Integers, FiniteSets, Sequences, TLC

\* ---- bounds of the environment ----
MaxUpdates == 2      \* healthInfoChanged deliveries
MaxHandles == 2      \* handles the service locator ever hands out
MaxNotes == 2        \* death notifications delivered
MaxListeners == 2    \* BatteryListenerImpl objects the model lets be created

\* ---- program constants ----
GET_HEALTH_SVC_RETRY_CNT == 5

BatteryStatus == {"UNKNOWN", "CHARGING", "DISCHARGING", "NOT_CHARGING", "FULL"}
NULL == 0
Handles == 1..MaxHandles

\* binder threads on which serviceDied can run, and the threads that run init()
DeathThreads == {"d", "d2"}
InitThreads == {"t1"} \cup DeathThreads

VARIABLES
  pc,                 \* position of "app", "t1", "d", "d2"
  workerPc,           \* position of the worker thread (mThread's lambda)
  tries,              \* init()'s local `tries`
  sIsBatteryListened, \* static flag, line 55
  batteryListener,    \* static sp<BatteryListenerImpl>: "null" or "impl"
  destroyed,          \* ~BatteryListenerImpl has completed
  mHealth,            \* NULL or a handle
  mStatus,            \* BatteryStatus, or "UNINIT" before init() sets it
  mDone,
  mLock,              \* "free" or the thread holding mLock
  mThread,            \* "null", "running" (joinable) or "joined"
  local_status,       \* the worker lambda's local
  isChargingRet,      \* what the isCharging() call just returned to the
                      \* application ("none" outside such a call)
  alive,              \* handles whose service is still up
  handedOut,          \* number of handles handed out so far
  regOn,              \* handle on which registerCallback is in force, or NULL
  linkedOn,           \* handle on which linkToDeath is in force, or NULL
  deadLinked,         \* handles that died while linked (notifications owed)
  numUpdates, numNotes, numListeners,
  crashed,            \* "no", or the fatal operation that ended the process
  ub,                 \* an operation with undefined behaviour has been executed
  \* ---- history (observation only; never read by the program) ----
  lastCb,             \* "none", "true", "false": most recent user callback
  lastWorkerCb,       \* same, callbacks of the current worker only
  initCharging,       \* getChargeStatus in t1's init() yielded CHARGING
  blip,               \* CHARGING -> NOT_CHARGING -> CHARGING episode monitor
  epoch,              \* NOT_CHARGING grace episode monitor: "none", "grace"
                      \* (wait_for entered), "expired" (its timeout fired),
                      \* "emitted", "twice", "early" (callbacks made for it)
  steady              \* mStatus has not changed since the worker read it

thr    == <<pc, tries>>
wrk    == <<workerPc, local_status>>
facade == <<sIsBatteryListened, batteryListener, destroyed, isChargingRet>>
obj    == <<mHealth, mStatus, mDone, mLock, mThread>>
svc    == <<alive, handedOut, regOn, linkedOn, deadLinked>>
cnt    == <<numUpdates, numNotes, numListeners>>
cbh    == <<lastCb, lastWorkerCb, initCharging>>
mon    == <<blip, epoch, steady>>
hist   == <<cbh, mon>>
flt    == <<crashed, ub>>
vars   == <<thr, wrk, facade, obj, svc, cnt, flt, hist>>

B2S(b) == IF b THEN "true" ELSE "false"

\* lines 85-87
statusToBool(s) == (s = "CHARGING") \/ (s = "FULL")

\* lines 71-74: the value isCharging() computes under mLock
isCharging_Debounced == lastCb = "true"

isCharging == statusToBool(mStatus)

\* the values an isCharging() call can yield: any boolean when mStatus was
\* never initialised (init() returned NO_INIT before line 108)
IsChargingValues == IF mStatus = "UNINIT" THEN BOOLEAN ELSE {isCharging}

\* std::condition_variable::notify_one on mCond: wakes the worker if it waits
notify_one(w) == CASE w = "wait"  -> "woken"
                   [] w = "grace" -> "grace_woken"
                   [] OTHER       -> w

\* outcomes of an operation with undefined behaviour
Undefined(kind) == crashed' \in {"no", kind} /\ ub' = TRUE

Init ==
  /\ pc = [t \in {"app"} \cup InitThreads |->
            IF t = "t1" THEN "none" ELSE "idle"]
  /\ workerPc = "none"
  /\ tries = 0
  /\ sIsBatteryListened = FALSE
  /\ batteryListener = "null"
  /\ destroyed = FALSE
  /\ mHealth = NULL
  /\ mStatus = "UNINIT"
  /\ mDone = FALSE
  /\ mLock = "free"
  /\ mThread = "null"
  /\ local_status = "UNKNOWN"
  /\ isChargingRet = "none"
  /\ alive = {}
  /\ handedOut = 0
  /\ regOn = NULL
  /\ linkedOn = NULL
  /\ deadLinked = {}
  /\ numUpdates = 0
  /\ numNotes = 0
  /\ numListeners = 0
  /\ crashed = "no"
  /\ ub = FALSE
  /\ lastCb = "none"
  /\ lastWorkerCb = "none"
  /\ initCharging = FALSE
  /\ blip = "none"
  /\ epoch = "none"
  /\ steady = TRUE

Running == crashed = "no"

\* thread th may go on using the listener: the object exists, or the thread
\* has already been through DanglingUse
Live(th) == (th \in DeathThreads /\ destroyed) => ub

\* ------------------------------------------------------------------------
\* BatteryListenerImpl::init(), lines 90-172, run by th = "t1" (from the
\* constructor, no lock held) or a death thread (from serviceDied, mLock held).
\* ------------------------------------------------------------------------

\* return from init(): t1 goes on in batteryPropertiesListenerInit, d leaves
\* serviceDied and its lock_guard releases mLock (lines 206-208)
InitReturn(th) ==
  /\ tries' = 0
  /\ IF th = "t1"
     THEN /\ pc' = [pc EXCEPT ![th] = "assign"]
          /\ mLock' = mLock
     ELSE /\ pc' = [pc EXCEPT ![th] = "idle"]
          /\ mLock' = "free"

\* lines 91-93
InitEnter(th) ==
  /\ Running
  /\ Live(th)
  /\ pc[th] = "init"
  /\ IF mHealth # NULL
     THEN InitReturn(th)                       \* INVALID_OPERATION
     ELSE /\ pc' = [pc EXCEPT ![th] = "init_get"]
          /\ tries' = 0
          /\ mLock' = mLock
  /\ UNCHANGED <<wrk, facade, mHealth, mStatus, mDone, mThread, svc, cnt,
                 flt, hist>>

\* line 96, IHealth::getService() != NULL: a handle to the health service
\* that is up, either the instance handed out last (still alive) or a newly
\* started one
GetService ==
  \/ /\ handedOut \in alive
     /\ mHealth' = handedOut
     /\ UNCHANGED <<handedOut, alive>>
  \/ /\ handedOut < MaxHandles
     /\ handedOut \notin alive
     /\ handedOut' = handedOut + 1
     /\ mHealth' = handedOut + 1
     /\ alive' = alive \cup {handedOut + 1}

\* lines 95-107: one iteration of the do-while around IHealth::getService()
InitGetService_NoLimit(th) ==
  /\ Running
  /\ Live(th)
  /\ pc[th] = "init_get"
  /\ \/ /\ GetService
        /\ pc' = [pc EXCEPT ![th] = "init_status"]
        /\ tries' = 0
        /\ mLock' = mLock
     \/ /\ IF tries < GET_HEALTH_SVC_RETRY_CNT
           THEN tries' = tries + 1 /\ pc' = pc /\ mLock' = mLock
           ELSE InitReturn(th)
        /\ UNCHANGED <<mHealth, alive, handedOut>>
  /\ UNCHANGED <<wrk, facade, mStatus, mDone, mThread, regOn, linkedOn,
                 deadLinked, cnt, flt, hist>>

InitGetService(th) ==
  /\ Running
  /\ Live(th)
  /\ pc[th] = "init_get"
  /\ \/ /\ GetService
        /\ pc' = [pc EXCEPT ![th] = "init_status"]
        /\ tries' = 0
        /\ mLock' = mLock
     \/ /\ IF tries + 1 < GET_HEALTH_SVC_RETRY_CNT  \* getService() == NULL
           THEN tries' = tries + 1 /\ pc' = pc /\ mLock' = mLock
           ELSE InitReturn(th)                   \* NO_INIT
        /\ UNCHANGED <<mHealth, alive, handedOut>>
  /\ UNCHANGED <<wrk, facade, mStatus, mDone, mThread, regOn, linkedOn,
                 deadLinked, cnt, flt, hist>>

\* a call through mHealth is undefined when serviceDied on another thread has
\* set mHealth to NULL (line 203, without mLock) in the meantime
CallThroughHandle ==
  IF mHealth = NULL THEN Undefined("null_handle_call") ELSE UNCHANGED flt

\* lines 108-121: mStatus = UNKNOWN, then getChargeStatus
InitGetStatus(th) ==
  /\ Running
  /\ Live(th)
  /\ pc[th] = "init_status"
  /\ \E s \in BatteryStatus :
       /\ mHealth \in alive \/ s = "UNKNOWN"   \* dead service: transaction error
       /\ mStatus' = s                         \* r != SUCCESS leaves UNKNOWN
       /\ initCharging' = IF th = "t1" THEN s = "CHARGING" ELSE initCharging
  /\ CallThroughHandle
  /\ pc' = [pc EXCEPT ![th] = "init_spawn"]
  /\ UNCHANGED <<tries, wrk, facade, mHealth, mDone, mLock, mThread, svc, cnt,
                 lastCb, lastWorkerCb, mon>>

\* lines 122-159: mDone = false and the worker thread is created
InitSpawn(th) ==
  /\ Running
  /\ Live(th)
  /\ pc[th] = "init_spawn"
  /\ mDone' = FALSE
  /\ mThread' = "running"
  /\ workerPc' = "start"
  /\ lastWorkerCb' = "none"
  /\ blip' = "none"
  /\ epoch' = "none"
  /\ pc' = [pc EXCEPT ![th] = "init_register"]
  /\ UNCHANGED <<tries, local_status, facade, mHealth, mStatus, mLock, svc,
                 cnt, flt, lastCb, initCharging, steady>>

\* lines 160-164: registerCallback(this)
InitRegister(th) ==
  /\ Running
  /\ Live(th)
  /\ pc[th] = "init_register"
  /\ regOn' = IF mHealth \in alive THEN mHealth ELSE regOn
  /\ CallThroughHandle
  /\ pc' = [pc EXCEPT ![th] = "init_link"]
  /\ UNCHANGED <<tries, wrk, facade, obj, alive, handedOut, linkedOn,
                 deadLinked, cnt, hist>>

\* lines 166-171: linkToDeath(this, 0); return NO_ERROR
InitLink(th) ==
  /\ Running
  /\ Live(th)
  /\ pc[th] = "init_link"
  /\ linkedOn' = IF mHealth \in alive THEN mHealth ELSE linkedOn
  /\ CallThroughHandle
  /\ InitReturn(th)
  /\ UNCHANGED <<wrk, facade, mHealth, mStatus, mDone, mThread, alive,
                 handedOut, regOn, deadLinked, cnt, hist>>

\* ------------------------------------------------------------------------
\* The worker thread, lines 123-159
\* ------------------------------------------------------------------------

\* lines 126-153, entered with mLock held: the loop test, the comparison with
\* mStatus and, for a new status, the switch, up to the point where mLock is
\* given up: thread exit, mCond.wait, mCond.wait_for (its predicate is false
\* on entry) or l.unlock() before the callback.
WorkerLoop_NoUnlock ==
  /\ mLock' = IF ~mDone /\ local_status # mStatus /\ mStatus # "NOT_CHARGING"
              THEN "worker" ELSE "free"
  /\ IF mDone
     THEN workerPc' = "exited" /\ UNCHANGED <<local_status, mon>>
     ELSE IF local_status = mStatus
     THEN workerPc' = "wait" /\ UNCHANGED <<local_status, mon>>
     ELSE /\ local_status' = mStatus
          /\ workerPc' = IF mStatus = "NOT_CHARGING" THEN "grace" ELSE "cb"
          /\ epoch' = IF mStatus = "NOT_CHARGING" THEN "grace" ELSE "none"
          /\ steady' = TRUE
          /\ blip' = IF mStatus = "NOT_CHARGING" /\ local_status = "CHARGING"
                       THEN "blip"
                     ELSE IF blip = "reverted" /\ mStatus = "CHARGING"
                       THEN "reverted"
                     ELSE "none"

WorkerLoop ==
  /\ mLock' = "free"
  /\ IF mDone
     THEN workerPc' = "exited" /\ UNCHANGED <<local_status, mon>>
     ELSE IF local_status = mStatus
     THEN workerPc' = "wait" /\ UNCHANGED <<local_status, mon>>
     ELSE /\ local_status' = mStatus
          /\ workerPc' = IF mStatus = "NOT_CHARGING" THEN "grace" ELSE "cb"
          /\ epoch' = IF mStatus = "NOT_CHARGING" THEN "grace" ELSE "none"
          /\ steady' = TRUE
          /\ blip' = IF mStatus = "NOT_CHARGING" /\ local_status = "CHARGING"
                       THEN "blip"
                     ELSE IF blip = "reverted" /\ mStatus = "CHARGING"
                       THEN "reverted"
                     ELSE "none"

\* lines 124-126: take mLock, local_status = mStatus, first loop test
WorkerStart ==
  /\ Running
  /\ workerPc = "start"
  /\ mLock = "free"
  /\ mLock' = "free"
  /\ local_status' = mStatus
  /\ workerPc' = IF mDone THEN "exited" ELSE "wait"
  /\ UNCHANGED <<thr, facade, mHealth, mStatus, mDone, mThread, svc, cnt,
                 flt, hist>>

\* line 128: a condition variable may return from a wait without a notify
SpuriousWakeup ==
  /\ Running
  /\ workerPc \in {"wait", "grace"}
  /\ workerPc' = notify_one(workerPc)
  /\ UNCHANGED <<thr, local_status, facade, obj, svc, cnt, flt, hist>>

\* lines 128-129: mCond.wait returns with mLock re-acquired; continue
WorkerWake ==
  /\ Running
  /\ workerPc = "woken"
  /\ mLock = "free"
  /\ WorkerLoop
  /\ UNCHANGED <<thr, facade, mHealth, mStatus, mDone, mThread, svc, cnt,
                 flt, cbh>>

\* line 145: the 3 s of wait_for elapse while the worker is inside it, blocked
\* or woken and about to re-test the predicate (the deadline is absolute)
GraceTimeout ==
  /\ Running
  /\ workerPc \in {"grace", "grace_woken"}
  /\ workerPc' = "grace_timeout"
  /\ epoch' = "expired"
  /\ blip' = IF blip = "blip" THEN "none" ELSE blip
  /\ UNCHANGED <<thr, local_status, facade, obj, svc, cnt, flt, cbh,
                 steady>>

\* line 145: wait_for woken before its timeout: with mLock re-acquired the
\* predicate is tested; true ends the wait (lines 146-147: break, next loop
\* round), false waits again
WorkerGraceWake ==
  /\ Running
  /\ workerPc = "grace_woken"
  /\ mLock = "free"
  /\ IF mStatus # local_status
     THEN WorkerLoop
     ELSE workerPc' = "grace" /\ UNCHANGED <<local_status, mon, mLock>>
  /\ UNCHANGED <<thr, facade, mHealth, mStatus, mDone, mThread, svc, cnt,
                 flt, cbh>>

\* lines 145-153: wait_for timed out; with mLock re-acquired the predicate
\* decides between break and the fall-through into default (l.unlock())
WorkerGraceExpired_Swallow ==
  /\ Running
  /\ workerPc = "grace_timeout"
  /\ mLock = "free"
  /\ WorkerLoop
  /\ UNCHANGED <<thr, facade, mHealth, mStatus, mDone, mThread, svc, cnt,
                 flt, cbh>>

WorkerGraceExpired ==
  /\ Running
  /\ workerPc = "grace_timeout"
  /\ mLock = "free"
  /\ IF mStatus # local_status
     THEN WorkerLoop
     ELSE workerPc' = "cb" /\ UNCHANGED <<local_status, mon, mLock>>
  /\ UNCHANGED <<thr, facade, mHealth, mStatus, mDone, mThread, svc, cnt,
                 flt, cbh>>

\* lines 151-154: mCb(statusToBool(local_status)), mLock not held
WorkerCb ==
  /\ Running
  /\ workerPc = "cb"
  /\ workerPc' = "relock"
  /\ lastCb' = B2S(statusToBool(local_status))
  /\ lastWorkerCb' = B2S(statusToBool(local_status))
  /\ blip' = "none"
  /\ epoch' = IF local_status # "NOT_CHARGING" THEN epoch
              ELSE IF epoch = "expired" THEN "emitted"
              ELSE IF epoch = "emitted" THEN "twice"
              ELSE "early"
  /\ UNCHANGED <<thr, local_status, facade, obj, svc, cnt, flt,
                 initCharging, steady>>

\* lines 155-156: l.lock(); break; next loop round
WorkerRelock ==
  /\ Running
  /\ workerPc = "relock"
  /\ mLock = "free"
  /\ WorkerLoop
  /\ UNCHANGED <<thr, facade, mHealth, mStatus, mDone, mThread, svc, cnt,
                 flt, cbh>>

\* ------------------------------------------------------------------------
\* healthInfoChanged, lines 215-224 (healthInfoChanged_2_1 forwards to it):
\* one delivery by the health service on the handle the callback is
\* registered with
\* ------------------------------------------------------------------------
healthInfoChanged_NoNotify(s) ==
  /\ Running
  /\ ~destroyed
  /\ regOn # NULL /\ regOn \in alive
  /\ numUpdates < MaxUpdates
  /\ mLock = "free"
  /\ numUpdates' = numUpdates + 1
  /\ IF s # mStatus
     THEN /\ mStatus' = s
          /\ steady' = FALSE
          /\ blip' = "none"
     ELSE UNCHANGED <<mStatus, steady, blip>>
  /\ UNCHANGED <<thr, wrk, facade, mHealth, mDone, mLock, mThread,
                 svc, numNotes, numListeners, flt, cbh, epoch>>

healthInfoChanged(s) ==
  /\ Running
  /\ ~destroyed
  /\ regOn # NULL /\ regOn \in alive
  /\ numUpdates < MaxUpdates
  /\ mLock = "free"
  /\ numUpdates' = numUpdates + 1
  /\ IF s # mStatus
     THEN /\ mStatus' = s
          /\ workerPc' = notify_one(workerPc)
          /\ steady' = FALSE
          /\ blip' = IF blip = "blip" /\ s = "CHARGING"
                         /\ workerPc \in {"grace", "grace_woken"}
                       THEN "reverted"
                     ELSE IF blip = "reverted" /\ workerPc = "cb"
                       THEN blip
                     ELSE "none"
     ELSE UNCHANGED <<mStatus, workerPc, steady, blip>>
  /\ UNCHANGED <<thr, local_status, facade, mHealth, mDone, mLock, mThread,
                 svc, numNotes, numListeners, flt, cbh, epoch>>

\* ------------------------------------------------------------------------
\* The health service as seen by the listener
\* ------------------------------------------------------------------------

\* the service behind handle h goes away; a linked death recipient is owed
\* a notification
ServiceDies(h) ==
  /\ Running
  /\ h \in alive
  /\ alive' = alive \ {h}
  /\ deadLinked' = IF linkedOn = h THEN deadLinked \cup {h} ELSE deadLinked
  /\ UNCHANGED <<thr, wrk, facade, obj, handedOut, regOn, linkedOn, cnt,
                 flt, hist>>

\* ------------------------------------------------------------------------
\* serviceDied, lines 192-208, on a binder thread dt
\* ------------------------------------------------------------------------

\* lines 194-202: the locked block with the identity check; h is `who`.
\* A notification is delivered on "d" when it is free, on "d2" otherwise.
serviceDied_NoIdentityCheck(dt, h) ==
  /\ Running
  /\ ~destroyed
  /\ pc[dt] = "idle"
  /\ dt = "d2" => pc["d"] # "idle"
  /\ h \in deadLinked
  /\ numNotes < MaxNotes
  /\ mLock = "free"
  /\ numNotes' = numNotes + 1
  /\ mDone' = TRUE
  /\ pc' = [pc EXCEPT ![dt] = "sd_clear"]
  /\ UNCHANGED <<tries, wrk, facade, mHealth, mStatus, mLock, mThread, svc,
                 numUpdates, numListeners, flt, hist>>

serviceDied(dt, h) ==
  /\ Running
  /\ ~destroyed
  /\ pc[dt] = "idle"
  /\ dt = "d2" => pc["d"] # "idle"
  /\ h \in deadLinked
  /\ numNotes < MaxNotes
  /\ mLock = "free"
  /\ numNotes' = numNotes + 1
  /\ IF mHealth = NULL \/ mHealth # h
     THEN UNCHANGED <<pc, mDone>>
     ELSE /\ mDone' = TRUE
          /\ pc' = [pc EXCEPT ![dt] = "sd_clear"]
  /\ UNCHANGED <<tries, wrk, facade, mHealth, mStatus, mLock, mThread, svc,
                 numUpdates, numListeners, flt, hist>>

\* line 203
ServiceDiedClear(dt) ==
  /\ Running
  /\ Live(dt)
  /\ pc[dt] = "sd_clear"
  /\ mHealth' = NULL
  /\ pc' = [pc EXCEPT ![dt] = "sd_notify"]
  /\ UNCHANGED <<tries, wrk, facade, mStatus, mDone, mLock, mThread, svc, cnt,
                 flt, hist>>

\* line 204
ServiceDiedNotify_NoNotify(dt) ==
  /\ Running
  /\ Live(dt)
  /\ pc[dt] = "sd_notify"
  /\ pc' = [pc EXCEPT ![dt] = "sd_join"]
  /\ UNCHANGED <<tries, wrk, facade, obj, svc, cnt, flt, hist>>

ServiceDiedNotify(dt) ==
  /\ Running
  /\ Live(dt)
  /\ pc[dt] = "sd_notify"
  /\ workerPc' = notify_one(workerPc)
  /\ pc' = [pc EXCEPT ![dt] = "sd_join"]
  /\ UNCHANGED <<tries, local_status, facade, obj, svc, cnt, flt, hist>>

\* line 205: mThread->join().  Joining a thread that is not joinable throws
\* std::system_error, which nothing catches; when the other death thread is
\* inside serviceDied too, the two joins on the one std::thread are
\* unsynchronised, which is undefined behaviour.
ServiceDiedJoin(dt) ==
  /\ Running
  /\ Live(dt)
  /\ pc[dt] = "sd_join"
  /\ IF mThread = "running"
     THEN /\ workerPc = "exited"
          /\ mThread' = "joined"
          /\ pc' = [pc EXCEPT ![dt] = "sd_lock"]
          /\ UNCHANGED flt
     ELSE IF \E o \in DeathThreads \ {dt} : pc[o] # "idle"
     THEN /\ Undefined("concurrent_join")
          /\ pc' = [pc EXCEPT ![dt] = "sd_lock"]
          /\ mThread' = mThread
     ELSE /\ crashed' = "join_not_joinable"
          /\ UNCHANGED <<pc, mThread, ub>>
  /\ UNCHANGED <<tries, wrk, facade, mHealth, mStatus, mDone, mLock, svc, cnt,
                 hist>>

\* lines 206-207: lock_guard, then init() with mLock held
ServiceDiedLock(dt) ==
  /\ Running
  /\ Live(dt)
  /\ pc[dt] = "sd_lock"
  /\ mLock = "free"
  /\ mLock' = dt
  /\ pc' = [pc EXCEPT ![dt] = "init"]
  /\ UNCHANGED <<tries, wrk, facade, mHealth, mStatus, mDone, mThread, svc,
                 cnt, flt, hist>>

\* serviceDied still running on a listener whose destructor has completed:
\* its next access is to a dangling object
DanglingUse ==
  /\ Running
  /\ destroyed
  /\ \E dt \in DeathThreads : pc[dt] # "idle"
  /\ Undefined("use_after_free")
  /\ UNCHANGED <<thr, wrk, facade, obj, svc, cnt, hist>>

\* ------------------------------------------------------------------------
\* batteryPropertiesListenerInit, lines 239-248, on the detached thread t1
\* ------------------------------------------------------------------------

\* line 240: new BatteryListenerImpl(cb); the constructor (line 174-176)
\* calls init()
ListenerNew ==
  /\ Running
  /\ pc["t1"] = "start"
  /\ numListeners < MaxListeners
  /\ numListeners' = numListeners + 1
  /\ pc' = [pc EXCEPT !["t1"] = "init"]
  /\ UNCHANGED <<tries, wrk, facade, obj, svc, numUpdates, numNotes, flt,
                 hist>>

\* line 240: the assignment to the static batteryListener
ListenerAssign ==
  /\ Running
  /\ pc["t1"] = "assign"
  /\ batteryListener' = "impl"
  /\ pc' = [pc EXCEPT !["t1"] = "ischarging"]
  /\ UNCHANGED <<tries, wrk, sIsBatteryListened, destroyed, isChargingRet,
                 obj, svc, cnt, flt, hist>>

\* line 241: batteryListener->isCharging(); line 244 decides on the callback
ListenerIsCharging ==
  /\ Running
  /\ pc["t1"] = "ischarging"
  /\ IF batteryListener = "null"
     THEN /\ Undefined("null_listener")
          /\ \E b \in BOOLEAN :
               pc' = [pc EXCEPT !["t1"] = IF b THEN "cb" ELSE "skipped"]
     ELSE /\ mLock = "free"
          /\ \E b \in IsChargingValues :
               pc' = [pc EXCEPT !["t1"] = IF b THEN "cb" ELSE "skipped"]
          /\ crashed' = crashed
          /\ ub' = (ub \/ mStatus = "UNINIT")
  /\ UNCHANGED <<tries, wrk, facade, obj, svc, cnt, hist>>

\* line 245: cb(isCharging)
ListenerInitialCb ==
  /\ Running
  /\ pc["t1"] = "cb"
  /\ lastCb' = "true"
  /\ pc' = [pc EXCEPT !["t1"] = "done"]
  /\ UNCHANGED <<tries, wrk, facade, obj, svc, cnt, flt, lastWorkerCb,
                 initCharging, mon>>

\* ------------------------------------------------------------------------
\* The facade, lines 235-237 and 250-273, called on thread "app"
\* ------------------------------------------------------------------------

\* the application enters a facade function: line 258 for f = "call_init",
\* line 272 for f = "call_ic"
AppCall(f) ==
  /\ Running
  /\ pc["app"] = "idle"
  /\ pc' = [pc EXCEPT !["app"] = f]
  /\ UNCHANGED <<tries, wrk, facade, obj, svc, cnt, flt, hist>>

\* lines 259-264
loc_extn_battery_properties_listener_init_NoFlag ==
  /\ Running
  /\ pc["app"] = "call_init"
  /\ pc' = [pc EXCEPT !["app"] = "idle", !["t1"] = "start"]
  /\ sIsBatteryListened' = TRUE
  /\ UNCHANGED <<tries, wrk, batteryListener, destroyed, isChargingRet, obj,
                 svc, cnt, flt, hist>>

loc_extn_battery_properties_listener_init ==
  /\ Running
  /\ pc["app"] = "call_init"
  /\ IF ~sIsBatteryListened
     THEN /\ pc' = [pc EXCEPT !["app"] = "idle", !["t1"] = "start"]
          /\ sIsBatteryListened' = TRUE
     ELSE /\ pc' = [pc EXCEPT !["app"] = "idle"]
          /\ sIsBatteryListened' = sIsBatteryListened
  /\ UNCHANGED <<tries, wrk, batteryListener, destroyed, isChargingRet, obj,
                 svc, cnt, flt, hist>>

\* lines 271-273 -> 235-237 -> 71-74: the call and the value it returns
loc_extn_battery_properties_is_charging ==
  /\ Running
  /\ pc["app"] = "call_ic"
  /\ IF batteryListener = "null"
     THEN /\ Undefined("null_listener")
          /\ isChargingRet' \in {"true", "false"}
     ELSE /\ mLock = "free"
          /\ \E b \in IsChargingValues : isChargingRet' = B2S(b)
          /\ crashed' = crashed
          /\ ub' = (ub \/ mStatus = "UNINIT")
  /\ pc' = [pc EXCEPT !["app"] = "ic_ret"]
  /\ UNCHANGED <<tries, wrk, sIsBatteryListened, batteryListener, destroyed,
                 obj, svc, cnt, hist>>

\* the application has consumed the value
IsChargingReturn ==
  /\ Running
  /\ pc["app"] = "ic_ret"
  /\ isChargingRet' = "none"
  /\ pc' = [pc EXCEPT !["app"] = "idle"]
  /\ UNCHANGED <<tries, wrk, sIsBatteryListened, batteryListener, destroyed,
                 obj, svc, cnt, flt, hist>>

\* lines 267-269 -> 250-253: batteryListener.clear(); on a null pointer it
\* does nothing, otherwise the destructor runs on the calling thread
loc_extn_battery_properties_listener_deinit ==
  /\ Running
  /\ pc["app"] = "idle"
  /\ batteryListener # "null"
  /\ pc' = [pc EXCEPT !["app"] = "dtor_lock"]
  /\ UNCHANGED <<tries, wrk, facade, obj, svc, cnt, flt, hist>>

\* lines 179-187: the locked block of ~BatteryListenerImpl; unlinkToDeath is
\* called through mHealth whether or not it is NULL
DtorUnregister ==
  /\ Running
  /\ pc["app"] = "dtor_lock"
  /\ mLock = "free"
  /\ IF mHealth # NULL
     THEN /\ regOn' = IF regOn = mHealth THEN NULL ELSE regOn
          /\ linkedOn' = IF linkedOn = mHealth THEN NULL ELSE linkedOn
          /\ UNCHANGED flt
     ELSE /\ Undefined("null_handle_call")
          /\ UNCHANGED <<regOn, linkedOn>>
  /\ pc' = [pc EXCEPT !["app"] = "dtor_done"]
  /\ UNCHANGED <<tries, wrk, facade, obj, alive, handedOut, deadLinked, cnt,
                 hist>>

\* line 188: mDone = true, without mLock and without a notify
DtorSetDone ==
  /\ Running
  /\ pc["app"] = "dtor_done"
  /\ mDone' = TRUE
  /\ pc' = [pc EXCEPT !["app"] = "dtor_join"]
  /\ UNCHANGED <<tries, wrk, facade, mHealth, mStatus, mLock, mThread, svc,
                 cnt, flt, hist>>

\* line 189: mThread->join(); then the object is gone and clear() nulls
\* batteryListener
DtorJoin ==
  /\ Running
  /\ pc["app"] = "dtor_join"
  /\ CASE mThread = "running" ->
            /\ workerPc = "exited"
            /\ mThread' = "joined"
            /\ UNCHANGED flt
       [] mThread = "null" ->
            /\ Undefined("null_thread_join")
            /\ mThread' = mThread
       [] mThread = "joined" ->
            /\ crashed' = "join_not_joinable"
            /\ UNCHANGED <<mThread, ub>>
  /\ destroyed' = TRUE
  /\ batteryListener' = "null"
  /\ pc' = [pc EXCEPT !["app"] = "idle"]
  /\ UNCHANGED <<tries, wrk, sIsBatteryListened, isChargingRet, mHealth,
                 mStatus, mDone, mLock, svc, cnt, hist>>

\* ------------------------------------------------------------------------
Next ==
  \/ \E f \in {"call_init", "call_ic"} : AppCall(f)
  \/ loc_extn_battery_properties_listener_init
  \/ loc_extn_battery_properties_is_charging
  \/ IsChargingReturn
  \/ loc_extn_battery_properties_listener_deinit
  \/ DtorUnregister
  \/ DtorSetDone
  \/ DtorJoin
  \/ ListenerNew
  \/ ListenerAssign
  \/ ListenerIsCharging
  \/ ListenerInitialCb
  \/ \E th \in InitThreads : InitEnter(th)
  \/ \E th \in InitThreads : InitGetService(th)
  \/ \E th \in InitThreads : InitGetStatus(th)
  \/ \E th \in InitThreads : InitSpawn(th)
  \/ \E th \in InitThreads : InitRegister(th)
  \/ \E th \in InitThreads : InitLink(th)
  \/ WorkerStart
  \/ WorkerWake
  \/ SpuriousWakeup
  \/ GraceTimeout
  \/ WorkerGraceWake
  \/ WorkerGraceExpired
  \/ WorkerCb
  \/ WorkerRelock
  \/ \E s \in BatteryStatus : healthInfoChanged(s)
  \/ \E h \in Handles : ServiceDies(h)
  \/ \E h \in Handles : serviceDied("d", h)
  \/ ServiceDiedClear("d")
  \/ ServiceDiedNotify("d")
  \/ ServiceDiedJoin("d")
  \/ ServiceDiedLock("d")
  \/ DanglingUse

\* every death notification is delivered on the one binder thread "d"
Spec == Init /\ [][Next]_vars

\* One link lifetime: the listener is started, the health service pushes
\* updates, nothing stops the worker (no death of the service, no deinit).
NextLink ==
  \/ AppCall("call_init")
  \/ loc_extn_battery_properties_listener_init
  \/ ListenerNew
  \/ ListenerAssign
  \/ ListenerIsCharging
  \/ ListenerInitialCb
  \/ InitEnter("t1")
  \/ InitGetService("t1")
  \/ InitGetStatus("t1")
  \/ InitSpawn("t1")
  \/ InitRegister("t1")
  \/ InitLink("t1")
  \/ WorkerStart
  \/ WorkerWake
  \/ SpuriousWakeup
  \/ GraceTimeout
  \/ WorkerGraceWake
  \/ WorkerGraceExpired
  \/ WorkerCb
  \/ WorkerRelock
  \/ \E s \in BatteryStatus : healthInfoChanged(s)

LinkSpec == Init /\ [][NextLink]_vars

\* One link lifetime in which the application also queries the listener
NextQuery ==
  \/ NextLink
  \/ AppCall("call_ic")
  \/ loc_extn_battery_properties_is_charging
  \/ IsChargingReturn

QuerySpec == Init /\ [][NextQuery]_vars

\* The listener once started: the application calls
\* loc_extn_battery_properties_listener_init and nothing else; the health
\* service pushes updates and dies, death notifications arrive on "d".
NextListener ==
  \/ AppCall("call_init")
  \/ loc_extn_battery_properties_listener_init
  \/ ListenerNew
  \/ ListenerAssign
  \/ ListenerIsCharging
  \/ ListenerInitialCb
  \/ \E th \in {"t1", "d"} : InitEnter(th)
  \/ \E th \in {"t1", "d"} : InitGetService(th)
  \/ \E th \in {"t1", "d"} : InitGetStatus(th)
  \/ \E th \in {"t1", "d"} : InitSpawn(th)
  \/ \E th \in {"t1", "d"} : InitRegister(th)
  \/ \E th \in {"t1", "d"} : InitLink(th)
  \/ WorkerStart
  \/ WorkerWake
  \/ SpuriousWakeup
  \/ GraceTimeout
  \/ WorkerGraceWake
  \/ WorkerGraceExpired
  \/ WorkerCb
  \/ WorkerRelock
  \/ \E s \in BatteryStatus : healthInfoChanged(s)
  \/ \E h \in Handles : ServiceDies(h)
  \/ \E h \in Handles : serviceDied("d", h)
  \/ ServiceDiedClear("d")
  \/ ServiceDiedNotify("d")
  \/ ServiceDiedJoin("d")
  \/ ServiceDiedLock("d")

ListenerSpec == Init /\ [][NextListener]_vars

\* The listener with two binder threads delivering serviceDied, so that a
\* second notification can arrive while the first is still being handled;
\* the application starts the listener and makes no other call.
NextTwoBinders ==
  \/ AppCall("call_init")
  \/ loc_extn_battery_properties_listener_init
  \/ ListenerNew
  \/ ListenerAssign
  \/ ListenerIsCharging
  \/ ListenerInitialCb
  \/ \E th \in InitThreads : InitEnter(th)
  \/ \E th \in InitThreads : InitGetService(th)
  \/ \E th \in InitThreads : InitGetStatus(th)
  \/ \E th \in InitThreads : InitSpawn(th)
  \/ \E th \in InitThreads : InitRegister(th)
  \/ \E th \in InitThreads : InitLink(th)
  \/ WorkerStart
  \/ WorkerWake
  \/ SpuriousWakeup
  \/ GraceTimeout
  \/ WorkerGraceWake
  \/ WorkerGraceExpired
  \/ WorkerCb
  \/ WorkerRelock
  \/ \E s \in BatteryStatus : healthInfoChanged(s)
  \/ \E h \in Handles : ServiceDies(h)
  \/ \E dt \in DeathThreads, h \in Handles : serviceDied(dt, h)
  \/ \E dt \in DeathThreads : ServiceDiedClear(dt)
  \/ \E dt \in DeathThreads : ServiceDiedNotify(dt)
  \/ \E dt \in DeathThreads : ServiceDiedJoin(dt)
  \/ \E dt \in DeathThreads : ServiceDiedLock(dt)

TwoBindersSpec == Init /\ [][NextTwoBinders]_vars

\* Scheduling: every thread of the program that can take a step eventually
\* does, and the 3 s timer of wait_for eventually fires.  Nothing obliges
\* the application to call, the service to push, die or answer, or the
\* condition variable to wake spuriously.
InitStep(th) ==
  \/ InitEnter(th) \/ InitGetService(th) \/ InitGetStatus(th)
  \/ InitSpawn(th) \/ InitRegister(th) \/ InitLink(th)

ListenerStep ==
  \/ ListenerNew \/ ListenerAssign \/ ListenerIsCharging \/ ListenerInitialCb
  \/ InitStep("t1")

WorkerStep ==
  \/ WorkerStart \/ WorkerWake \/ WorkerGraceWake \/ WorkerGraceExpired
  \/ WorkerCb \/ WorkerRelock

DeathStep(dt) ==
  \/ ServiceDiedClear(dt) \/ ServiceDiedNotify(dt) \/ ServiceDiedJoin(dt)
  \/ ServiceDiedLock(dt) \/ InitStep(dt)

DtorStep == DtorUnregister \/ DtorSetDone \/ DtorJoin

Fairness ==
  /\ WF_vars(ListenerStep)
  /\ WF_vars(WorkerStep)
  /\ WF_vars(GraceTimeout)
  /\ WF_vars(DeathStep("d"))
  /\ WF_vars(DtorStep)

FairListenerSpec == ListenerSpec /\ Fairness

FairLinkSpec == LinkSpec /\ Fairness

FairSpec == Spec /\ Fairness

\* ------------------------------------------------------------------------
\* Properties
\* ------------------------------------------------------------------------

\* C1: the worker invokes the user callback only with a boolean that differs
\* from the boolean of the previous callback it made in this link lifetime
\* (no two consecutive worker callbacks carry the same boolean).
C1_NoDuplicateBoolean ==
  workerPc = "cb" => B2S(statusToBool(local_status)) # lastWorkerCb

\* C2: when the worker, having last observed CHARGING, observes NOT_CHARGING
\* and the stored status returns to CHARGING before the grace wait times
\* out, the worker makes no callback for that episode.
C2_BlipSwallowed ==
  ~(blip = "reverted" /\ workerPc = "cb")

\* C3: a NOT_CHARGING status that stays until the grace wait times out makes
\* the worker invoke the callback exactly once, with false, and never before
\* the timeout: no callback for NOT_CHARGING is made before the timeout or a
\* second time, after the timeout with the status unchanged the worker is on
\* its way to the callback (it neither waits again nor exits without it),
\* and the callback made carries false.
C3_GraceTimeoutEmitsFalseOnce ==
  /\ epoch \notin {"early", "twice"}
  /\ (steady /\ epoch = "expired") => workerPc \in {"grace_timeout", "cb"}
  /\ epoch = "emitted" => lastWorkerCb = "false"

C3_Witness ==
  /\ epoch = "emitted" /\ steady
  /\ workerPc = "wait"
  /\ mStatus = "NOT_CHARGING" /\ local_status = "NOT_CHARGING"
  /\ lastCb = "false"
  /\ ~mDone

\* the step in which the application's isCharging() call reads and returns
IsChargingCall ==
  /\ pc["app"] = "call_ic" /\ pc'["app"] = "ic_ret"
  /\ batteryListener = "impl" /\ mStatus # "UNINIT"

C5_InitialCallbackFirst ==
  /\ (initCharging /\ ~ub /\ ~destroyed) => pc["t1"] # "skipped"
  /\ (initCharging /\ ~ub /\ pc["t1"] = "cb") => lastCb = "none"

\* C6: deinit clears the "already started" flag, so that a further init
\* starts a new listener: once the listener has been torn down and no init
\* thread is under way, sIsBatteryListened is false.
C6_DeinitClearsFlag ==
  (destroyed /\ ~ub /\ pc["app"] = "idle" /\ pc["t1"] \in {"done", "skipped"})
    => ~sIsBatteryListened

\* a step in which the user callback is invoked
CallbackStep ==
  \/ workerPc = "cb" /\ workerPc' = "relock"
  \/ pc["t1"] = "cb" /\ pc'["t1"] = "done"

\* C7: after deinit has returned (the destructor has completed), no user
\* callback of the torn-down link is invoked.
C7_NoCallbackAfterDeinit ==
  [][(CallbackStep /\ ~ub) => ~destroyed]_vars

\* C8: init is idempotent: at most one BatteryListenerImpl is ever created,
\* and a call to loc_extn_battery_properties_listener_init made while the
\* flag is set changes nothing but the caller's own position (no thread is
\* started, no acquisition, no worker, no registration).
C8_InitIdempotent ==
  /\ [](numListeners <= 1)
  /\ [][(pc["app"] = "call_init" /\ pc'["app"] = "idle" /\ sIsBatteryListened)
         => /\ pc' = [pc EXCEPT !["app"] = "idle"]
            /\ UNCHANGED <<tries, wrk, facade, obj, svc, cnt, flt, hist>>]_vars

C8_Witness ==
  /\ pc["app"] = "call_init" /\ sIsBatteryListened
  /\ numListeners = 1 /\ mThread = "running" /\ regOn # NULL

\* C9: when the destructor runs while the worker is blocked in its
\* indefinite wait (updates unregistered, so none arrives any more), the
\* worker eventually exits and the join, hence deinit, eventually returns.
C9_TeardownTerminates ==
  (/\ pc["app"] = "dtor_join" /\ mDone
   /\ workerPc = "wait" /\ mThread = "running"
   /\ regOn = NULL /\ ~ub)
    ~> (pc["app"] = "idle")

\* C10: destroying a listener that holds no service handle performs no
\* operation on the absent handle and no join on an absent worker thread.
C10_TeardownSafeWithoutHandle ==
  crashed \notin {"null_handle_call", "null_thread_join"}

\* C11: once a stop has been requested (mDone set by serviceDied or by the
\* destructor) while the worker is blocked, in the indefinite wait or in the
\* NOT_CHARGING grace wait, the worker goes to its exit without invoking the
\* user callback
C11_NoCallbackAfterStop ==
  [][(/\ mDone
      /\ ~ub
      /\ workerPc \in {"wait", "woken", "grace", "grace_woken",
                       "grace_timeout"})
     => workerPc' # "cb"]_vars

\* the worker running now was started by serviceDied's re-acquisition, and
\* every callback so far was made by a worker (t1 made none), so that lastCb
\* is the last callback delivered before the death until the new worker
\* makes its first one
Recovered ==
  /\ handedOut >= 2
  /\ mHealth = handedOut
  /\ mThread = "running"
  /\ ~mDone
  /\ pc["t1"] = "skipped"
  /\ lastWorkerCb = "none"
  /\ lastCb # "none"
  /\ ~ub

\* C12: across a service death and a successful re-acquisition the first
\* callback after the recovery does not repeat the boolean of the last
\* callback before the death, and the new worker does not settle in its
\* indefinite wait without a callback while the stored status maps to a
\* boolean other than the last one delivered
C12_NoDuplicateNoLossAcrossRecovery ==
  /\ (Recovered /\ workerPc = "cb")
       => B2S(statusToBool(local_status)) # lastCb
  /\ (Recovered /\ workerPc = "wait" /\ local_status = mStatus
        /\ pc["d"] = "idle")
       => B2S(statusToBool(mStatus)) = lastCb

\* a death notification is delivered (lines 192-202 run once)
NotificationStep == numNotes' = numNotes + 1

\* C13: a death notification delivered while no handle is held, or while the
\* handle held is not one a notification is owed for, is ignored: handle,
\* stored status, done flag, lock, worker and thread positions are unchanged
\* and no re-acquisition starts; and whenever serviceDied returns at its
\* check it has changed nothing
C13_ForeignDeathIgnored ==
  [][(NotificationStep /\ (mHealth = NULL \/ mHealth \notin deadLinked
                            \/ pc'["d"] = "idle"))
     => /\ pc' = pc
        /\ UNCHANGED <<tries, wrk, facade, obj, svc, numUpdates, numListeners,
                       flt, hist>>]_vars

\* both notifications have been delivered, the second one for handle 1 while
\* handle 2 was held: the link on handle 2 and its worker are untouched
C13_Witness ==
  /\ numNotes = 2
  /\ deadLinked = {1}
  /\ mHealth = 2
  /\ linkedOn = 2
  /\ mThread = "running"
  /\ workerPc = "wait"
  /\ ~mDone
  /\ pc["d"] = "idle"
  /\ ~ub

\* C14: loc_extn_battery_properties_is_charging called at any point after
\* loc_extn_battery_properties_listener_init has returned executes no
\* undefined operation, does not end the process, and returns false as long
\* as no status has ever been stored
C14_IsChargingNeverFails ==
  [][(/\ pc["app"] = "call_ic"
      /\ pc'["app"] = "ic_ret"
      /\ sIsBatteryListened
      /\ ~ub)
     => /\ ~ub'
        /\ crashed' = "no"
        /\ mStatus = "UNINIT" => isChargingRet' = "false"]_vars

\* positions of a thread inside init()
InitPositions ==
  {"init", "init_get", "init_status", "init_spawn", "init_register",
   "init_link"}

\* C15: while the user callback is executing, on the worker or on t1, the
\* invoking thread does not hold mLock, and the only thread that can hold it
\* then is a death thread inside init(), which never waits for a callback:
\* an isCharging() made from the callback gets the mutex
C15_CallbackWithoutLock ==
  /\ workerPc = "cb" => mLock # "worker"
  /\ pc["t1"] = "cb" => mLock # "t1"
  /\ ((workerPc = "cb" \/ pc["t1"] = "cb") /\ mLock # "free")
       => (mLock \in DeathThreads /\ pc[mLock] \in InitPositions)

\* the worker and t1 are both about to run the user callback
C15_Witness ==
  /\ workerPc = "cb"
  /\ pc["t1"] = "cb"
  /\ mLock = "free"
  /\ ~ub

\* init() obtains a handle (line 96) / creates the worker thread (line 123)
AcquireStep == \E th \in InitThreads :
                 pc[th] = "init_get" /\ pc'[th] = "init_status"
SpawnStep == \E th \in InitThreads :
               pc[th] = "init_spawn" /\ pc'[th] = "init_register"

GetServiceStep(th) == pc[th] = "init_get" /\ (pc'[th] # "init_get" \/ tries' # tries)

\* C17: init() calls the service locator at most 5 times; it gives up
\* (NO_INIT) exactly when the fifth call fails, leaving the listener without
\* handle, worker, registration or death link; a call that succeeds is the
\* last one of that init()
C17_AcquireBounded ==
  /\ [](tries + 1 <= 5)
  /\ [][\A th \in InitThreads :
         GetServiceStep(th) =>
           \/ /\ mHealth' # NULL                                \* success
              /\ pc'[th] = "init_status"
           \/ /\ tries + 1 < 5                                  \* retry
              /\ pc'[th] = "init_get" /\ tries' = tries + 1
              /\ UNCHANGED <<mHealth, workerPc, mThread, regOn, linkedOn>>
           \/ /\ tries + 1 = 5                                  \* NO_INIT
              /\ pc'[th] \notin InitPositions
              /\ mHealth' = NULL
              /\ UNCHANGED <<workerPc, mThread, mDone, regOn, linkedOn>>]_vars

\* the constructor's init() has given up after five failed calls: no handle
\* was ever handed out and nothing was started
C17_Witness ==
  /\ pc["t1"] = "assign"
  /\ handedOut = 0
  /\ mHealth = NULL
  /\ mThread = "null"
  /\ workerPc = "none"
  /\ regOn = NULL
  /\ linkedOn = NULL

\* C18: serviceDied does not deadlock.  It never holds mLock while it joins
\* the worker, nobody holds mLock while the worker is in the user callback
\* (so a callback that calls isCharging() returns), and once a notification
\* has been accepted, whatever the worker is doing, the worker exits, the
\* join returns and serviceDied runs init() to its end and returns
C18_ServiceDiedCompletes ==
  /\ [](pc["d"] = "sd_join" => mLock # "d")
  /\ [](workerPc = "cb" => mLock = "free")
  /\ pc["d"] = "sd_clear"
       ~> (pc["d"] = "idle")

\* the worker is in the grace wait (or in the user callback) when the
\* notification is accepted: serviceDied has set mDone and waits in join
C18_Witness ==
  /\ pc["d"] = "sd_join"
  /\ workerPc \in {"grace", "cb"}
  /\ mDone
  /\ mThread = "running"
  /\ mLock = "free"

\* the worker has blocked at least once and has not been asked to stop, and
\* the stored status s is not the one it last read
Unsettled(s) ==
  /\ workerPc \notin {"none", "start", "exited"}
  /\ ~mDone
  /\ mStatus = s
  /\ local_status # s

\* the worker has made its callback for s and is back in the indefinite wait
Settled(s) ==
  /\ workerPc = "wait"
  /\ local_status = s
  /\ lastWorkerCb = B2S(statusToBool(s))

\* C19: within one link lifetime, when the stored status has changed to a
\* value s the worker has not read, then unless the status changes again or
\* a stop is requested the worker eventually invokes the callback with
\* statusToBool(s) and blocks in the indefinite wait; and a worker woken
\* when the status is back at the value it last read makes no callback
C19_Settles ==
  /\ \A s \in BatteryStatus :
       Unsettled(s) ~> (Settled(s) \/ mStatus # s \/ mDone)
  /\ [][(workerPc = "woken" /\ workerPc' # "woken" /\ local_status = mStatus)
        => (workerPc' \in {"wait", "exited"} /\ lastCb' = lastCb)]_vars

\* a pushed FULL has been delivered as true and the worker waits again
C19_Witness ==
  /\ workerPc = "wait"
  /\ mStatus = "FULL"
  /\ local_status = "FULL"
  /\ lastWorkerCb = "true"
  /\ numUpdates >= 1
  /\ ~mDone
  /\ ~ub

\* serviceDied has returned after its init() gave up: no handle, the old
\* worker joined, none started
ReacquireFailed ==
  /\ mHealth = NULL
  /\ mThread = "joined"
  /\ workerPc = "exited"
  /\ pc["d"] = "idle"
  /\ ~destroyed
  /\ ~ub

\* C20: once the re-acquisition inside serviceDied has given up, no user
\* callback is invoked any more, no handle is acquired, no worker started and
\* no registration or death link made, whatever notifications and
\* loc_extn_battery_properties_listener_init calls follow
C20_NoRecoveryAfterFailedReacquire ==
  [][ReacquireFailed =>
       /\ ~CallbackStep
       /\ mHealth' = NULL
       /\ workerPc' = "exited"
       /\ pc'["d"] = "idle"
       /\ UNCHANGED <<handedOut, regOn, linkedOn, numListeners>>]_vars
====
